---- MODULE Spec2Model ----
(***************************************************************************)
(* A2A03Visualizer: the node-state buffer, the register -> node maps and   *)
(* the bridge between the behavioural emulator and the perfect2a03         *)
(* gate-level simulator (src/A2A03Visualizer.cpp, src/A2A03Visualizer.h).  *)
(*                                                                         *)
(* Every public method is one action that runs the whole method.  The      *)
(* gate-level simulator and sokol are external collaborators: the calls    *)
(* one method makes on them are recorded, in order, in trace and sgLog.    *)
(***************************************************************************)
EXTENDS Integers, Sequences, FiniteSets, TLC

(***************************************************************************)
(* Bounds of the model.                                                    *)
(***************************************************************************)
\* Size of node_states_.  The source has 8192 (A2A03Visualizer.h:15); the
\* model keeps the array small enough to enumerate and places the register
\* maps inside it, with out-of-range entries defined relative to it.
A2A03_MAX_NODES == 120

\* Number of simulator instances cpu_initAndResetChip may hand out in one run.
MaxCreates == 2

\* Number of offscreen targets updateRenderTarget may allocate in one run.
MaxTargets == 3

(***************************************************************************)
(* Program constants.                                                      *)
(***************************************************************************)
NODE_INACTIVE == 100
NODE_ACTIVE == 190
NODE_HIGHLIGHTED == 255

NULL == 0

\* sokol's id of no resource, and the value of a handle member that no
\* initializer and no constructor statement has set (sg_image render_target_
\* and its neighbours): it names none of the resources made afterwards.
SG_INVALID_ID == 0
Indeterminate == -1

Nodes == 0 .. (A2A03_MAX_NODES - 1)

\* (value & (1 << i)) != 0, for a non-negative value and 0 <= i < 32
BitSet(value, i) == ((value \div (2 ^ i)) % 2) = 1

Consecutive(lo, n) == [k \in 1 .. n |-> lo + k - 1]

(***************************************************************************)
(* Inputs: the generated node-group tables, the behavioural emulator's     *)
(* snapshots and the states the gate-level simulator can settle in.        *)
(***************************************************************************)
\* nodegroups.h: one node per register bit.  The accumulator and the address
\* bus have all their nodes; other groups carry "no such node" sentinels
\* (-1), another negative entry and entries at and beyond the end of
\* node_states_.
NodeGroups ==
    [ a   |-> Consecutive(10, 8),
      x   |-> <<18, 19, 20, A2A03_MAX_NODES, 22, 23, 24, 25>>,
      y   |-> <<26, 27, 28, 29, 30, 31, 32, A2A03_MAX_NODES + 5>>,
      sp  |-> Consecutive(34, 8),
      p   |-> <<42, 43, 44, 45, 46, 0, 48, 49>>,
      pcl |-> Consecutive(50, 8),
      pch |-> <<-1, 59, 60, 61, 62, 63, 64, 65>>,
      db  |-> Consecutive(66, 8),
      ab  |-> Consecutive(74, 16),
      sq0 |-> <<90, -3, 92, 93>>,
      sq1 |-> Consecutive(94, 4),
      tri |-> Consecutive(98, 4),
      noi |-> Consecutive(102, 4),
      pcm |-> <<106, 107, 108, 109, 110, 111, A2A03_MAX_NODES>> ]

\* NesEmulator::getCpuState() and getApuState() snapshots (uint8_t fields,
\* uint16_t pc): one in the middle of the address space, one whose pc + 8
\* passes 0xFFFF.
EmuSnapshots ==
    { [cpu |-> [a |-> 165, x |-> 0,  y |-> 129, sp |-> 253, p |-> 36,  pc |-> 4660],
       apu |-> [sq0_out |-> 15, sq1_out |-> 5, tri_out |-> 10, noi_out |-> 3, pcm_out |-> 85]],
      [cpu |-> [a |-> 90,  x |-> 255, y |-> 7,  sp |-> 1,   p |-> 255, pc |-> 65528],
       apu |-> [sq0_out |-> 0,  sq1_out |-> 0, tri_out |-> 0,  noi_out |-> 0, pcm_out |-> 0]] }

\* NesEmulator::readRomByte(addr) of the loaded program.
readRomByte(addr) == (addr * 7 + 3) % 256

\* The emulator handed to updateFromEmulator: a null pointer, or one with
\* its running / loaded flags and its snapshots.
NoEmu == [present |-> FALSE, running |-> FALSE, loaded |-> FALSE,
          cpu |-> [a |-> 0, x |-> 0, y |-> 0, sp |-> 0, p |-> 0, pc |-> 0],
          apu |-> [sq0_out |-> 0, sq1_out |-> 0, tri_out |-> 0, noi_out |-> 0, pcm_out |-> 0]]

Emulators ==
    {NoEmu} \cup
    { [present |-> TRUE, running |-> r, loaded |-> l, cpu |-> s.cpu, apu |-> s.apu] :
        r \in BOOLEAN, l \in BOOLEAN, s \in EmuSnapshots }

\* A2A03CpuState values passed to updateCpuState (addr and data are free).
ManualCpuStates ==
    { [a |-> 165, x |-> 60, y |-> 0, sp |-> 16, p |-> 219, pc |-> 32769,
       addr |-> 4660, data |-> 255] }

\* A2A03ApuState outputs passed to updateApuState.
ManualApuStates ==
    { [sq0_out |-> 9, sq1_out |-> 0, tri_out |-> 15, noi_out |-> 6, pcm_out |-> 127] }

\* Node levels the simulator can show after it has been stepped.
SimPatterns ==
    { [n \in Nodes |-> n % 2 = 0],
      [n \in Nodes |-> n % 3 = 1] }

\* Values of the "Cycles/Frame" slider (10 .. 1000).
SliderValues == {10}

\* Arguments of stepSimulation: the -1 sentinel and explicit counts.
StepArgs == {-1, 0, 3}

\* Arguments of highlightNode.
HighlightArgs == {-1, 11, A2A03_MAX_NODES}

\* Camera scales and scale deltas, in tenths (9.0 is 90): the clamp compares
\* and assigns, which float does exactly.
ScaleArgs == {-50, 5, 10, 425, 1000, 1005, 20000}
ScaleDeltas == {-10000, -250, 400, 10000}

\* Widths and heights passed to render, in halves (100.5 is 201).
RenderSizes == {-3, 0, 1, 200, 201, 400}

(***************************************************************************)
(* State.                                                                  *)
(***************************************************************************)
VARIABLES
    initialized_,           \* A2A03Visualizer::initialized_
    node_states_,           \* A2A03Visualizer::node_states_
    node_idx_,              \* the cached maps node_a_ .. node_pcm_out_
    sim_state_,             \* handle of the simulator instance, or NULL
    sim_enabled_,
    sim_cycles_per_frame_,
    simNodes,               \* node levels inside the simulator
    simCreated,             \* instances handed out so far
    simLive,                \* instances created and not yet destroyed
    trace,                  \* what the last method did, in program order
    call,                   \* the last method and its arguments
    scale_,                 \* camera scale, in tenths
    render_width_,
    render_height_,
    render_target_,         \* ids of the offscreen target's four resources
    render_target_view_,
    color_attachment_view_,
    render_sampler_,
    sgPool,                 \* sokol resources made and not yet destroyed
    sgMade,                 \* ids handed out by sokol so far
    sgLog                   \* sg_make_* and sg_begin_pass calls of the last method

vars == <<initialized_, node_states_, node_idx_, sim_state_, sim_enabled_,
          sim_cycles_per_frame_, simNodes, simCreated, simLive,
          trace, call, scale_, render_width_, render_height_,
          render_target_, render_target_view_, color_attachment_view_,
          render_sampler_, sgPool, sgMade, sgLog>>

\* int node_a_[8] = {-1}: the first element is -1, the rest are zero.
DefaultMember(n) == [k \in 1 .. n |-> IF k = 1 THEN -1 ELSE 0]

DefaultNodeIdx ==
    [ a   |-> DefaultMember(8),  x   |-> DefaultMember(8),
      y   |-> DefaultMember(8),  sp  |-> DefaultMember(8),
      p   |-> DefaultMember(8),  pcl |-> DefaultMember(8),
      pch |-> DefaultMember(8),  db  |-> DefaultMember(8),
      ab  |-> DefaultMember(16),
      sq0 |-> DefaultMember(4),  sq1 |-> DefaultMember(4),
      tri |-> DefaultMember(4),  noi |-> DefaultMember(4),
      pcm |-> DefaultMember(7) ]

AllInactive == [n \in Nodes |-> NODE_INACTIVE]

AllLow == [n \in Nodes |-> FALSE]

NoCall == [op |-> "construct", emu |-> NoEmu,
           cpu |-> [NoEmu.cpu EXCEPT !.pc = 0] @@ [addr |-> 0, data |-> 0],
           apu |-> NoEmu.apu, n |-> 0, nodes |-> <<>>, count |-> 0, value |-> 0,
           width |-> 0, height |-> 0]

\* The members outside the node buffer and the simulator after construction.
InitView ==
    /\ scale_ = 90
    /\ render_width_ = 0
    /\ render_height_ = 0
    /\ render_target_ = Indeterminate
    /\ render_target_view_ = Indeterminate
    /\ color_attachment_view_ = Indeterminate
    /\ render_sampler_ = Indeterminate
    /\ sgPool = {}
    /\ sgMade = 0
    /\ sgLog = <<>>

\* A method that makes no sokol call.
RenderUntouched ==
    /\ sgLog' = <<>>
    /\ UNCHANGED <<render_width_, render_height_, render_target_,
                   render_target_view_, color_attachment_view_, render_sampler_,
                   sgPool, sgMade>>

\* ... and leaves the camera alone.
ViewUntouched == RenderUntouched /\ UNCHANGED scale_

Init ==
    /\ initialized_ = FALSE
    /\ node_states_ = AllInactive
    /\ node_idx_ = DefaultNodeIdx
    /\ sim_state_ = NULL
    /\ sim_enabled_ = TRUE
    /\ sim_cycles_per_frame_ = 100
    /\ simNodes = AllLow
    /\ simCreated = 0
    /\ simLive = {}
    /\ trace = <<>>
    /\ call = NoCall
    /\ InitView

(***************************************************************************)
(* Effects.  A method is translated to the sequence of effects it has, in  *)
(* program order: stores into node_states_ and calls on the simulator.     *)
(* Leave applies the sequence to the state.                                *)
(***************************************************************************)
Effect(op, h, arg, val) == [op |-> op, h |-> h, arg |-> arg, val |-> val]

\* node_states_[n] = v
Store(n, v) == Effect("store", NULL, n, v)

\* memset(node_states_, v, sizeof(node_states_))
Fill(v) == Effect("fill", NULL, 0, v)

\* cpu_initAndResetChip(): returns instance h, or NULL when it fails
cpu_initAndResetChip(h) == Effect("create", h, 0, 0)

\* cpu_destroyChip(state)
cpu_destroyChip(h) == Effect("destroy", h, 0, 0)

\* cpu_step(state)
cpu_step(h) == Effect("step", h, 0, 0)

\* cpu_write_node(state, node, high)
cpu_write_node(h, n, high) == Effect("write", h, n, IF high THEN 1 ELSE 0)

\* cpu_memory[addr] = byte
cpu_memory_store(addr, byte) == Effect("mem", NULL, addr, byte)

\* cpu_read_node_state_as_bytes(state, active, inactive, node_states_, A2A03_MAX_NODES)
cpu_read_node_state_as_bytes(h, active, inactive) == Effect("harvest", h, active, inactive)

Max(S) == CHOOSE m \in S : \A k \in S : k <= m

Positions(t, ops) == {k \in DOMAIN t : t[k].op \in ops}

\* Node levels of the simulator after the first k effects of t: stepping
\* lets the network settle in `after'; a fresh or destroyed chip shows none.
LevelsAt(t, k, after) ==
    LET evs == {j \in Positions(t, {"step", "create", "destroy"}) : j <= k}
    IN  IF evs = {} THEN simNodes
        ELSE IF t[Max(evs)].op = "step" THEN after ELSE AllLow

\* node_states_ after the effects of t: the last fill or harvest, then for
\* each node the last store that follows it.
BufferAfter(t, after) ==
    LET bulk    == Positions(t, {"fill", "harvest"})
        k0      == IF bulk = {} THEN 0 ELSE Max(bulk)
        base    == IF k0 = 0 THEN node_states_
                   ELSE IF t[k0].op = "fill" THEN [n \in Nodes |-> t[k0].val]
                   ELSE LET lv == LevelsAt(t, k0, after)
                        IN  [n \in Nodes |-> IF lv[n] THEN t[k0].arg ELSE t[k0].val]
        stores  == {k \in Positions(t, {"store"}) : k > k0}
        touched == {t[k].arg : k \in stores}
    IN  [n \in Nodes |->
            IF n \in touched
            THEN t[Max({k \in stores : t[k].arg = n})].val
            ELSE base[n]]

\* sim_state_ is assigned from cpu_initAndResetChip and cleared after
\* cpu_destroyChip.
HandleAfter(t) ==
    LET evs == Positions(t, {"create", "destroy"})
    IN  IF evs = {} THEN sim_state_
        ELSE IF t[Max(evs)].op = "create" THEN t[Max(evs)].h ELSE NULL

LiveAfter(t) ==
    LET made == {t[k].h : k \in Positions(t, {"create"})} \ {NULL}
    IN  {h \in simLive \cup made :
            LET evs == {k \in Positions(t, {"create", "destroy"}) : t[k].h = h}
            IN  IF evs = {} THEN h \in simLive ELSE t[Max(evs)].op = "create"}

\* Where stepping can leave the simulator: any of SimPatterns when t steps
\* it, its present levels otherwise.
Settlings(t) == IF Positions(t, {"step"}) = {} THEN {simNodes} ELSE SimPatterns

Leave(t) ==
    \E after \in Settlings(t) :
        /\ trace' = t
        /\ node_states_' = BufferAfter(t, after)
        /\ simNodes' = LevelsAt(t, Len(t), after)
        /\ sim_state_' = HandleAfter(t)
        /\ simLive' = LiveAfter(t)
        /\ simCreated' = simCreated + Cardinality({k \in Positions(t, {"create"}) : t[k].h # NULL})

(***************************************************************************)
(* A2A03Visualizer's private helpers.                                      *)
(***************************************************************************)
\* Variant: the upper bound of the index check is missing.
NodeIndexValid_noUpper(n) == n >= 0

\* nodes[i] >= 0 && nodes[i] < A2A03_MAX_NODES
NodeIndexValid(n) == n >= 0 /\ n < A2A03_MAX_NODES

\* Variant: the mask is 1 << (i + 1).
NodeBitState_shifted(value, i) == IF BitSet(value, i + 1) THEN NODE_ACTIVE ELSE NODE_INACTIVE

\* (value & (1 << i)) ? NODE_ACTIVE : NODE_INACTIVE
NodeBitState(value, i) == IF BitSet(value, i) THEN NODE_ACTIVE ELSE NODE_INACTIVE

RECURSIVE setNodeBitsFrom(_, _, _, _)
setNodeBitsFrom(nodes, count, value, i) ==
    IF i >= count THEN <<>>
    ELSE (IF NodeIndexValid(nodes[i + 1])
          THEN <<Store(nodes[i + 1], NodeBitState(value, i))>>
          ELSE <<>>)
         \o setNodeBitsFrom(nodes, count, value, i + 1)

\* Variant: the store is += instead of = (uint8_t arithmetic).
setNodeBits_accumulate(nodes, count, value) ==
    LET t == setNodeBitsFrom(nodes, count, value, 0)
    IN  [k \in DOMAIN t |-> Store(t[k].arg, (node_states_[t[k].arg] + t[k].val) % 256)]

setNodeBits(nodes, count, value) == setNodeBitsFrom(nodes, count, value, 0)

RECURSIVE setPerfect2a03NodeBitsFrom(_, _, _, _, _)
setPerfect2a03NodeBitsFrom(h, nodes, count, value, i) ==
    IF i >= count THEN <<>>
    ELSE (IF nodes[i + 1] >= 0
          THEN <<cpu_write_node(h, nodes[i + 1], BitSet(value, i))>>
          ELSE <<>>)
         \o setPerfect2a03NodeBitsFrom(h, nodes, count, value, i + 1)

setPerfect2a03NodeBits(h, nodes, count, value) ==
    IF h = NULL THEN <<>>
    ELSE setPerfect2a03NodeBitsFrom(h, nodes, count, value, 0)

\* for (i = 0; i < n; ++i) cpu_step(sim_state_)
StepHalfCycles(h, n) == [k \in 1 .. n |-> cpu_step(h)]

updateNodeStatesFromSimulation(h) ==
    IF h = NULL THEN <<>>
    ELSE <<cpu_read_node_state_as_bytes(h, NODE_ACTIVE, NODE_INACTIVE)>>

\* Half-cycles run right after the chip is created.
InitHalfCycles == 20

\* h is sim_state_ on entry, made what cpu_initAndResetChip() returns.
initSimulation(h, made) ==
    IF h # NULL THEN <<>>
    ELSE <<cpu_initAndResetChip(made)>>
         \o (IF made # NULL THEN StepHalfCycles(made, InitHalfCycles) ELSE <<>>)

shutdownSimulation(h) ==
    IF h # NULL THEN <<cpu_destroyChip(h)>> ELSE <<>>

\* Variant: the old instance is not shut down first.
resetSimulationBody_noShutdown(h, made) == initSimulation(h, made)

resetSimulationBody(h, made) ==
    shutdownSimulation(h) \o initSimulation(NULL, made)

(***************************************************************************)
(* updateFromEmulator and the manual state updates.                        *)
(***************************************************************************)
\* A2A03CpuState built from the emulator snapshot: addr = pc, data = 0.
CpuStateOf(c) ==
    [a |-> c.a, x |-> c.x, y |-> c.y, sp |-> c.sp, p |-> c.p, pc |-> c.pc,
     addr |-> c.pc, data |-> 0]

\* pc & 0xFF and (pc >> 8) & 0xFF
LowByte(v) == v % 256
HighByte(v) == (v \div 256) % 256

\* The eight setNodeBits calls of updateFromEmulator (no data bus).
MirrorEmulatorCpu(idx, c) ==
       setNodeBits(idx.a,   8, c.a)
    \o setNodeBits(idx.x,   8, c.x)
    \o setNodeBits(idx.y,   8, c.y)
    \o setNodeBits(idx.sp,  8, c.sp)
    \o setNodeBits(idx.p,   8, c.p)
    \o setNodeBits(idx.pcl, 8, LowByte(c.pc))
    \o setNodeBits(idx.pch, 8, HighByte(c.pc))
    \o setNodeBits(idx.ab, 16, c.addr)

\* The five setNodeBits calls for the APU outputs.
MirrorApuOutputs(idx, u) ==
       setNodeBits(idx.sq0, 4, u.sq0_out)
    \o setNodeBits(idx.sq1, 4, u.sq1_out)
    \o setNodeBits(idx.tri, 4, u.tri_out)
    \o setNodeBits(idx.noi, 4, u.noi_out)
    \o setNodeBits(idx.pcm, 7, u.pcm_out)

\* Variant: bit 5 is pushed like the other bits.
PushStatusBitsFrom_noSkip(h, nodes, value, i) ==
    setPerfect2a03NodeBitsFrom(h, nodes, 8, value, i)

\* The P register loop: bit 5 is skipped.
RECURSIVE PushStatusBitsFrom(_, _, _, _)
PushStatusBitsFrom(h, nodes, value, i) ==
    IF i >= 8 THEN <<>>
    ELSE (IF i # 5 /\ nodes[i + 1] >= 0
          THEN <<cpu_write_node(h, nodes[i + 1], BitSet(value, i))>>
          ELSE <<>>)
         \o PushStatusBitsFrom(h, nodes, value, i + 1)

\* 1. Update perfect2a03 registers from emulator state
PushRegisters(h, idx, c) ==
       setPerfect2a03NodeBits(h, idx.a,  8, c.a)
    \o setPerfect2a03NodeBits(h, idx.x,  8, c.x)
    \o setPerfect2a03NodeBits(h, idx.y,  8, c.y)
    \o setPerfect2a03NodeBits(h, idx.sp, 8, c.sp)
    \o PushStatusBitsFrom(h, idx.p, c.p, 0)
    \o setPerfect2a03NodeBits(h, idx.pcl, 8, LowByte(c.pc))
    \o setPerfect2a03NodeBits(h, idx.pch, 8, HighByte(c.pc))
    \o setPerfect2a03NodeBits(h, idx.ab, 16, c.addr)

max_bytes == 9

\* Variant: addr is an int, so pc + i does not wrap.
FetchAddr_noWrap(pc, i) == pc + i

\* uint16_t addr = pc + i
FetchAddr(pc, i) == (pc + i) % 65536

\* 2. Copy the bytes at pc .. into cpu_memory
RECURSIVE InjectInstructionBytesFrom(_, _)
InjectInstructionBytesFrom(pc, i) ==
    IF i >= max_bytes THEN <<>>
    ELSE LET addr == FetchAddr(pc, i)
         IN  (IF addr <= 65535
              THEN <<cpu_memory_store(addr, readRomByte(addr))>>
              ELSE <<cpu_memory_store(addr, 0)>>)
             \o InjectInstructionBytesFrom(pc, i + 1)

\* Variant: the bridge steps the configured per-frame budget.
half_cycles_to_execute_budget == sim_cycles_per_frame_

half_cycles_to_execute == 20

\* Variant: the loaded check is missing.
BridgeCondition_noLoaded(h, emu) ==
    h # NULL /\ sim_enabled_ /\ emu.running

\* sim_state_ && sim_enabled_ && emu->isRunning() && emu->isLoaded()
BridgeCondition(h, emu) ==
    h # NULL /\ sim_enabled_ /\ emu.running /\ emu.loaded

\* The body of the if: push, inject, step, harvest.
RunBridge(h, idx, c) ==
       PushRegisters(h, idx, c)
    \o InjectInstructionBytesFrom(c.pc, 0)
    \o StepHalfCycles(h, half_cycles_to_execute)
    \o updateNodeStatesFromSimulation(h)

\* updateFromEmulator past its early return.
UpdateCycle(h, idx, emu) ==
       <<Fill(NODE_INACTIVE)>>
    \o MirrorEmulatorCpu(idx, CpuStateOf(emu.cpu))
    \o (IF BridgeCondition(h, emu) THEN RunBridge(h, idx, CpuStateOf(emu.cpu)) ELSE <<>>)
    \o MirrorApuOutputs(idx, emu.apu)

\* !emu || !initialized_
UpdateSkipped(emu) == ~emu.present \/ ~initialized_

updateFromEmulator(emu) ==
    /\ call' = [NoCall EXCEPT !.op = "updateFromEmulator", !.emu = emu]
    /\ Leave(IF UpdateSkipped(emu) THEN <<>> ELSE UpdateCycle(sim_state_, node_idx_, emu))
    /\ UNCHANGED <<initialized_, node_idx_, sim_enabled_, sim_cycles_per_frame_>>
    /\ ViewUntouched

\* The nine setNodeBits calls of updateCpuState (data bus included).
MirrorManualCpu(idx, c) ==
       setNodeBits(idx.a,   8, c.a)
    \o setNodeBits(idx.x,   8, c.x)
    \o setNodeBits(idx.y,   8, c.y)
    \o setNodeBits(idx.sp,  8, c.sp)
    \o setNodeBits(idx.p,   8, c.p)
    \o setNodeBits(idx.pcl, 8, LowByte(c.pc))
    \o setNodeBits(idx.pch, 8, HighByte(c.pc))
    \o setNodeBits(idx.db,  8, c.data)
    \o setNodeBits(idx.ab, 16, c.addr)

updateCpuState(c) ==
    /\ call' = [NoCall EXCEPT !.op = "updateCpuState", !.cpu = c]
    /\ Leave(IF ~initialized_ THEN <<>> ELSE MirrorManualCpu(node_idx_, c))
    /\ UNCHANGED <<initialized_, node_idx_, sim_enabled_, sim_cycles_per_frame_>>
    /\ ViewUntouched

updateApuState(u) ==
    /\ call' = [NoCall EXCEPT !.op = "updateApuState", !.apu = u]
    /\ Leave(IF ~initialized_ THEN <<>> ELSE MirrorApuOutputs(node_idx_, u))
    /\ UNCHANGED <<initialized_, node_idx_, sim_enabled_, sim_cycles_per_frame_>>
    /\ ViewUntouched

(***************************************************************************)
(* The offscreen render target and the camera.                             *)
(***************************************************************************)
\* static_cast<int>(x) of a float given in halves: truncation toward zero.
TruncToInt(halves) == IF halves >= 0 THEN halves \div 2 ELSE -((-halves) \div 2)

sg_make_image(id, width, height) == Effect("sg_make_image", id, width, height)
sg_make_view(id, image) == Effect("sg_make_view", id, image, 0)
sg_make_sampler(id) == Effect("sg_make_sampler", id, 0, 0)
sg_begin_pass(view) == Effect("sg_begin_pass", view, 0, 0)

\* Entries of the resource pool.
Resource(id, kind, image, width, height) ==
    [id |-> id, kind |-> kind, image |-> image, width |-> width, height |-> height]

\* if (x.id != SG_INVALID_ID) sg_destroy_*(x): an id naming no resource of
\* the pool (stale or indeterminate) destroys nothing.
sg_destroy(pool, id) ==
    IF id # SG_INVALID_ID THEN {r \in pool : r.id # id} ELSE pool

\* The four guarded destroy calls, views first.
DestroyRenderTarget(pool) ==
    sg_destroy(sg_destroy(sg_destroy(sg_destroy(pool,
        render_target_view_), color_attachment_view_), render_target_), render_sampler_)

\* Variant: the size test is missing, every render reallocates.
RenderTargetUpToDate_never(width, height) == FALSE

\* width == render_width_ && height == render_height_
RenderTargetUpToDate(width, height) ==
    width = render_width_ /\ height = render_height_

\* The sg_make_* calls of updateRenderTarget(width, height).
TargetCreations(width, height) ==
    IF RenderTargetUpToDate(width, height) THEN <<>>
    ELSE << sg_make_image(sgMade + 1, width, height),
            sg_make_view(sgMade + 2, sgMade + 1),
            sg_make_view(sgMade + 3, sgMade + 1),
            sg_make_sampler(sgMade + 4) >>

updateRenderTarget(width, height) ==
    IF RenderTargetUpToDate(width, height)
    THEN UNCHANGED <<render_width_, render_height_, render_target_,
                     render_target_view_, color_attachment_view_, render_sampler_,
                     sgPool, sgMade>>
    ELSE /\ render_width_' = width
         /\ render_height_' = height
         /\ render_target_' = sgMade + 1
         /\ render_target_view_' = sgMade + 2
         /\ color_attachment_view_' = sgMade + 3
         /\ render_sampler_' = sgMade + 4
         /\ sgMade' = sgMade + 4
         /\ sgPool' = DestroyRenderTarget(sgPool) \cup
                { Resource(sgMade + 1, "image", SG_INVALID_ID, width, height),
                  Resource(sgMade + 2, "view", sgMade + 1, 0, 0),
                  Resource(sgMade + 3, "view", sgMade + 1, 0, 0),
                  Resource(sgMade + 4, "sampler", SG_INVALID_ID, 0, 0) }

\* !initialized_, or w <= 0 || h <= 0
RenderSkipped(w, h) == ~initialized_ \/ w <= 0 \/ h <= 0

\* render(width, height); the arguments are floats, given in halves.
render(width, height) ==
    LET w == TruncToInt(width)
        h == TruncToInt(height)
    IN  /\ sgMade < 4 * MaxTargets
        /\ call' = [NoCall EXCEPT !.op = "render", !.width = width, !.height = height]
        /\ IF RenderSkipped(w, h)
           THEN RenderUntouched
           ELSE /\ updateRenderTarget(w, h)
                /\ sgLog' = TargetCreations(w, h)
                             \o <<sg_begin_pass(color_attachment_view_')>>
        /\ Leave(<<>>)
        /\ UNCHANGED <<initialized_, node_idx_, sim_enabled_, sim_cycles_per_frame_,
                       scale_>>

\* getMinScale() and getMaxScale(), in tenths.
getMinScale == 10
getMaxScale == 1000

\* Variant: the lower clamp is missing.
ClampScale_noLower(scale) == IF scale > getMaxScale THEN getMaxScale ELSE scale

\* scale_ = scale; if (scale_ < min) scale_ = min; if (scale_ > max) scale_ = max
ClampScale(scale) ==
    LET low == IF scale < getMinScale THEN getMinScale ELSE scale
    IN  IF low > getMaxScale THEN getMaxScale ELSE low

setScale(scale) ==
    /\ call' = [NoCall EXCEPT !.op = "setScale", !.n = scale]
    /\ scale_' = ClampScale(scale)
    /\ Leave(<<>>)
    /\ RenderUntouched
    /\ UNCHANGED <<initialized_, node_idx_, sim_enabled_, sim_cycles_per_frame_>>

\* setScale(scale_ + delta)
addScale(delta) ==
    /\ call' = [NoCall EXCEPT !.op = "addScale", !.n = delta]
    /\ scale_' = ClampScale(scale_ + delta)
    /\ Leave(<<>>)
    /\ RenderUntouched
    /\ UNCHANGED <<initialized_, node_idx_, sim_enabled_, sim_cycles_per_frame_>>

\* "Reset View" menu item and "Reset" button of drawWindow: scale_ = 9.0f
resetView ==
    /\ initialized_
    /\ call' = [NoCall EXCEPT !.op = "resetView"]
    /\ scale_' = 90
    /\ Leave(<<>>)
    /\ RenderUntouched
    /\ UNCHANGED <<initialized_, node_idx_, sim_enabled_, sim_cycles_per_frame_>>

(***************************************************************************)
(* Life cycle, stepping, highlighting and the simulation settings.         *)
(***************************************************************************)
\* cacheNodeIndices(): copy the generated tables into the cached maps.
cacheNodeIndices == NodeGroups

\* What cpu_initAndResetChip() returns: the next instance, or NULL.
Made(chipOk) == IF chipOk THEN simCreated + 1 ELSE NULL

\* init(): backendOk is whether sokol-shdc has shaders for the backend,
\* chipOk whether cpu_initAndResetChip() succeeds.
init(backendOk, chipOk) ==
    /\ simCreated < MaxCreates
    /\ call' = [NoCall EXCEPT !.op = "init"]
    /\ IF initialized_ \/ ~backendOk
       THEN /\ Leave(<<>>)
            /\ UNCHANGED <<initialized_, node_idx_>>
       ELSE /\ node_idx_' = cacheNodeIndices
            /\ Leave(initSimulation(sim_state_, Made(chipOk)))
            /\ initialized_' = TRUE
    /\ UNCHANGED <<sim_enabled_, sim_cycles_per_frame_>>
    /\ ViewUntouched

\* shutdown(): the guarded destroy calls, shutdownSimulation(), the flag.
shutdownBody ==
    /\ IF ~initialized_
       THEN /\ Leave(<<>>)
            /\ UNCHANGED <<initialized_, sgPool>>
       ELSE /\ sgPool' = DestroyRenderTarget(sgPool)
            /\ Leave(shutdownSimulation(sim_state_))
            /\ initialized_' = FALSE
    /\ sgLog' = <<>>
    /\ UNCHANGED <<node_idx_, sim_enabled_, sim_cycles_per_frame_, scale_,
                   render_width_, render_height_, render_target_,
                   render_target_view_, color_attachment_view_, render_sampler_,
                   sgMade>>

shutdown ==
    /\ call' = [NoCall EXCEPT !.op = "shutdown"]
    /\ shutdownBody

\* ~A2A03Visualizer(): if (initialized_) shutdown(); the object is gone
\* afterwards.
Destructor ==
    /\ call' = [NoCall EXCEPT !.op = "destruct"]
    /\ shutdownBody

resetSimulation(chipOk) ==
    /\ simCreated < MaxCreates
    /\ call' = [NoCall EXCEPT !.op = "resetSimulation"]
    /\ Leave(resetSimulationBody(sim_state_, Made(chipOk)))
    /\ UNCHANGED <<initialized_, node_idx_, sim_enabled_, sim_cycles_per_frame_>>
    /\ ViewUntouched

\* Variant: the test is num_half_cycles <= 0.
StepCount_zeroDefault(num_half_cycles) ==
    IF num_half_cycles <= 0 THEN sim_cycles_per_frame_ ELSE num_half_cycles

\* (num_half_cycles < 0) ? sim_cycles_per_frame_ : num_half_cycles
StepCount(num_half_cycles) ==
    IF num_half_cycles < 0 THEN sim_cycles_per_frame_ ELSE num_half_cycles

\* Variant: the null check of the handle is missing.
StepSkipped_noNull(h) == ~sim_enabled_

\* !sim_state_ || !sim_enabled_
StepSkipped(h) == h = NULL \/ ~sim_enabled_

stepSimulationBody(h, num_half_cycles) ==
    IF StepSkipped(h) THEN <<>>
    ELSE StepHalfCycles(h, StepCount(num_half_cycles))
         \o updateNodeStatesFromSimulation(h)

stepSimulation(num_half_cycles) ==
    /\ call' = [NoCall EXCEPT !.op = "stepSimulation", !.n = num_half_cycles]
    /\ Leave(stepSimulationBody(sim_state_, num_half_cycles))
    /\ UNCHANGED <<initialized_, node_idx_, sim_enabled_, sim_cycles_per_frame_>>
    /\ ViewUntouched

\* Variant: the lower bound of the index check is missing.
highlightNodeBody_noLower(node_index) ==
    IF node_index < A2A03_MAX_NODES
    THEN <<Store(node_index, NODE_HIGHLIGHTED)>>
    ELSE <<>>

highlightNodeBody(node_index) ==
    IF node_index >= 0 /\ node_index < A2A03_MAX_NODES
    THEN <<Store(node_index, NODE_HIGHLIGHTED)>>
    ELSE <<>>

highlightNode(node_index) ==
    /\ call' = [NoCall EXCEPT !.op = "highlightNode", !.n = node_index]
    /\ Leave(highlightNodeBody(node_index))
    /\ UNCHANGED <<initialized_, node_idx_, sim_enabled_, sim_cycles_per_frame_>>
    /\ ViewUntouched

\* Variant: only the highlighted entries are reset.
clearHighlightBody_onlyHighlighted ==
    LET lit == {n \in Nodes : node_states_[n] = NODE_HIGHLIGHTED}
    IN  [k \in 1 .. Cardinality(lit) |->
            Store(CHOOSE n \in lit : Cardinality({m \in lit : m < n}) = k - 1,
                  NODE_INACTIVE)]

\* memset(node_states_, NODE_INACTIVE, sizeof(node_states_))
clearHighlightBody == <<Fill(NODE_INACTIVE)>>

\* call.count and call.value record how many entries were HIGHLIGHTED and
\* ACTIVE when the method was entered.
clearHighlight ==
    /\ call' = [NoCall EXCEPT !.op = "clearHighlight",
                 !.count = Cardinality({n \in Nodes : node_states_[n] = NODE_HIGHLIGHTED}),
                 !.value = Cardinality({n \in Nodes : node_states_[n] = NODE_ACTIVE})]
    /\ Leave(clearHighlightBody)
    /\ UNCHANGED <<initialized_, node_idx_, sim_enabled_, sim_cycles_per_frame_>>
    /\ ViewUntouched

\* setSimulationEnabled(enabled), also the "Enable Transistor Sim" menu item
setSimulationEnabled(enabled) ==
    /\ call' = [NoCall EXCEPT !.op = "setSimulationEnabled"]
    /\ sim_enabled_' = enabled
    /\ Leave(<<>>)
    /\ UNCHANGED <<initialized_, node_idx_, sim_cycles_per_frame_>>
    /\ ViewUntouched

\* ImGui::SliderInt("Cycles/Frame", &sim_cycles_per_frame_, 10, 1000)
setCyclesPerFrame(v) ==
    /\ initialized_
    /\ call' = [NoCall EXCEPT !.op = "setCyclesPerFrame", !.n = v]
    /\ sim_cycles_per_frame_' = v
    /\ Leave(<<>>)
    /\ UNCHANGED <<initialized_, node_idx_, sim_enabled_>>
    /\ ViewUntouched

Next ==
    \/ \E b \in BOOLEAN, k \in BOOLEAN : init(b, k)
    \/ shutdown
    \/ \E k \in BOOLEAN : resetSimulation(k)
    \/ \E emu \in Emulators : updateFromEmulator(emu)
    \/ \E c \in ManualCpuStates : updateCpuState(c)
    \/ \E u \in ManualApuStates : updateApuState(u)
    \/ \E n \in StepArgs : stepSimulation(n)
    \/ \E i \in HighlightArgs : highlightNode(i)
    \/ clearHighlight
    \/ \E b \in BOOLEAN : setSimulationEnabled(b)
    \/ \E v \in SliderValues : setCyclesPerFrame(v)
    \/ \E width \in RenderSizes, height \in RenderSizes : render(width, height)
    \/ \E scale \in ScaleArgs : setScale(scale)
    \/ \E delta \in ScaleDeltas : addScale(delta)
    \/ resetView

Spec == Init /\ [][Next]_vars

\* The methods that reach the simulator.  The others (updateCpuState,
\* updateApuState, highlightNode, clearHighlight) only store into
\* node_states_, which none of these methods reads.
NextBridge ==
    \/ \E b \in BOOLEAN, k \in BOOLEAN : init(b, k)
    \/ shutdown
    \/ \E k \in BOOLEAN : resetSimulation(k)
    \/ \E emu \in Emulators : updateFromEmulator(emu)
    \/ \E n \in StepArgs : stepSimulation(n)
    \/ \E b \in BOOLEAN : setSimulationEnabled(b)
    \/ \E v \in SliderValues : setCyclesPerFrame(v)

SpecBridge == Init /\ [][NextBridge]_vars

\* The methods that create and destroy the simulator, up to the engine's
\* destruction.
Alive == call.op # "destruct"

NextLife ==
    \/ Alive /\ \E b \in BOOLEAN, k \in BOOLEAN : init(b, k)
    \/ Alive /\ shutdown
    \/ Alive /\ \E k \in BOOLEAN : resetSimulation(k)
    \/ Alive /\ \E n \in StepArgs : stepSimulation(n)
    \/ Alive /\ Destructor

SpecLife == Init /\ [][NextLife]_vars

\* The methods that store into node_states_.
NextHighlight ==
    \/ \E b \in BOOLEAN, k \in BOOLEAN : init(b, k)
    \/ \E i \in HighlightArgs : highlightNode(i)
    \/ clearHighlight
    \/ \E c \in ManualCpuStates : updateCpuState(c)
    \/ \E u \in ManualApuStates : updateApuState(u)
    \/ \E n \in StepArgs : stepSimulation(n)
    \/ \E emu \in Emulators : updateFromEmulator(emu)

SpecHighlight == Init /\ [][NextHighlight]_vars

\* The methods that make and destroy the offscreen target.
NextRender ==
    \/ \E b \in BOOLEAN, k \in BOOLEAN : init(b, k)
    \/ shutdown
    \/ \E width \in RenderSizes, height \in RenderSizes : render(width, height)

SpecRender == Init /\ [][NextRender]_vars

\* The camera scale.
NextCamera ==
    \/ \E b \in BOOLEAN, k \in BOOLEAN : init(b, k)
    \/ \E scale \in ScaleArgs : setScale(scale)
    \/ \E delta \in ScaleDeltas : addScale(delta)
    \/ resetView

SpecCamera == Init /\ [][NextCamera]_vars

(***************************************************************************)
(* setNodeBits on its own: any buffer, any map, any count, any value.      *)
(***************************************************************************)
TestBuffers ==
    { AllInactive,
      [n \in Nodes |-> NODE_ACTIVE],
      [n \in Nodes |-> NODE_HIGHLIGHTED],
      [n \in Nodes |-> IF n % 3 = 0 THEN NODE_HIGHLIGHTED
                       ELSE IF n % 3 = 1 THEN NODE_ACTIVE ELSE NODE_INACTIVE] }

TestMaps ==
    { Consecutive(10, 8),
      Consecutive(74, 16),
      <<-1, 5, A2A03_MAX_NODES, 7, -3, A2A03_MAX_NODES - 1, 0, A2A03_MAX_NODES + 5>>,
      <<3, 4, 3, 4>> }

TestCounts(nodes) == {0, 4, Len(nodes)}

TestValues == {0, 165, 4660, 65535}

InitBits ==
    /\ initialized_ = FALSE
    /\ node_states_ \in TestBuffers
    /\ node_idx_ = DefaultNodeIdx
    /\ sim_state_ = NULL
    /\ sim_enabled_ = TRUE
    /\ sim_cycles_per_frame_ = 100
    /\ simNodes = AllLow
    /\ simCreated = 0
    /\ simLive = {}
    /\ trace = <<>>
    /\ call = NoCall
    /\ InitView

CallSetNodeBits(nodes, count, value) ==
    /\ call.op = "construct"
    /\ call' = [NoCall EXCEPT !.op = "setNodeBits", !.nodes = nodes,
                              !.count = count, !.value = value]
    /\ Leave(setNodeBits(nodes, count, value))
    /\ UNCHANGED <<initialized_, node_idx_, sim_enabled_, sim_cycles_per_frame_>>
    /\ ViewUntouched

\* The same call once more.
CallSetNodeBitsAgain ==
    /\ call.op = "setNodeBits"
    /\ call' = [call EXCEPT !.op = "setNodeBits again"]
    /\ Leave(setNodeBits(call.nodes, call.count, call.value))
    /\ UNCHANGED <<initialized_, node_idx_, sim_enabled_, sim_cycles_per_frame_>>
    /\ ViewUntouched

NextBits ==
    \/ \E nodes \in TestMaps, value \in TestValues :
          \E count \in TestCounts(nodes) : CallSetNodeBits(nodes, count, value)
    \/ CallSetNodeBitsAgain

SpecBits == InitBits /\ [][NextBits]_vars

(***************************************************************************)
(* Properties.                                                             *)
(***************************************************************************)
\* The simulator calls among the effects of t, in order.
SimCalls(t) == SelectSeq(t, LAMBDA e : e.op \notin {"store", "fill"})

CountOf(t, op) == Cardinality(Positions(t, {op}))

LevelState(high) == IF high THEN NODE_ACTIVE ELSE NODE_INACTIVE

\* The last method was updateFromEmulator and it got past its early return.
CycleRan == call.op = "updateFromEmulator" /\ call.emu.present /\ initialized_

\* ... and the bridge was allowed to run in it.
BridgeAllowed ==
    sim_state_ # NULL /\ sim_enabled_ /\ call.emu.running /\ call.emu.loaded

BridgeRan == CycleRan /\ BridgeAllowed

\* C1: at the end of an update cycle in which the bridge ran, every entry of
\* node_states_ is the harvested level of that node (ACTIVE for high,
\* INACTIVE for low): no mirroring store lands after the harvest.
C1_HarvestIsLastWriter ==
    BridgeRan =>
        /\ \A n \in Nodes : node_states_[n] = LevelState(simNodes[n])
        /\ \A k \in Positions(trace, {"store"}) :
               \E j \in Positions(trace, {"harvest"}) : k < j

\* C2: in an update cycle in which the bridge runs, the simulator sees all
\* the register-push node writes, then all the instruction-byte writes, then
\* exactly 20 half-cycle steps, then exactly one harvest, whatever the
\* configured half-cycles-per-frame budget is.
C2_BridgeOrder ==
    BridgeRan =>
        LET c == SimCalls(trace)
            W == CountOf(c, "write")
            M == CountOf(c, "mem")
        IN  /\ Len(c) = W + M + 20 + 1
            /\ \A k \in 1 .. Len(c) :
                   c[k].op = IF k <= W THEN "write"
                             ELSE IF k <= W + M THEN "mem"
                             ELSE IF k <= W + M + 20 THEN "step"
                             ELSE "harvest"

C2_Witness ==
    /\ BridgeRan
    /\ sim_cycles_per_frame_ = 10
    /\ CountOf(trace, "write") > 0
    /\ CountOf(trace, "mem") > 0
    /\ CountOf(trace, "step") = 20

\* The registers mirrored by an update cycle: each map with its value.
MirroredRegisters(emu) ==
    { <<node_idx_.a, emu.cpu.a>>, <<node_idx_.x, emu.cpu.x>>,
      <<node_idx_.y, emu.cpu.y>>, <<node_idx_.sp, emu.cpu.sp>>,
      <<node_idx_.p, emu.cpu.p>>,
      <<node_idx_.pcl, emu.cpu.pc % 256>>, <<node_idx_.pch, emu.cpu.pc \div 256>>,
      <<node_idx_.ab, emu.cpu.pc>>,
      <<node_idx_.sq0, emu.apu.sq0_out>>, <<node_idx_.sq1, emu.apu.sq1_out>>,
      <<node_idx_.tri, emu.apu.tri_out>>, <<node_idx_.noi, emu.apu.noi_out>>,
      <<node_idx_.pcm, emu.apu.pcm_out>> }

\* Register mirroring alone, written onto an all-INACTIVE buffer (no node
\* belongs to two maps).
MirrorOnly(emu) ==
    [n \in Nodes |->
        IF \E r \in MirroredRegisters(emu) : \E i \in DOMAIN r[1] :
               r[1][i] = n /\ (r[2] \div (2 ^ (i - 1))) % 2 = 1
        THEN NODE_ACTIVE ELSE NODE_INACTIVE]

\* C3: updateFromEmulator does bridge work only when the bridge is enabled,
\* the emulator is running with a program loaded and the handle is non-null.
\* If any of these is false the call makes no simulator call, and an update
\* cycle (a call past the emulator / initialized check) leaves in the buffer
\* the register mirroring written onto an all-INACTIVE buffer.
C3_BridgeOnlyWhenAllowed ==
    (call.op = "updateFromEmulator" /\ ~BridgeAllowed) =>
        /\ SimCalls(trace) = <<>>
        /\ CycleRan => node_states_ = MirrorOnly(call.emu)

C3_Witness ==
    /\ CycleRan
    /\ sim_state_ # NULL /\ sim_enabled_ /\ call.emu.running /\ ~call.emu.loaded
    /\ \E n \in Nodes : node_states_[n] = NODE_ACTIVE

\* C4: with a null simulator handle, register push, instruction injection,
\* stepSimulation and harvest make no simulator call and leave node_states_
\* as the behavioural mirroring last wrote it.
C4_NullHandleNoOp ==
    [][ sim_state_ = NULL =>
          /\ call'.op = "stepSimulation" =>
                node_states_' = node_states_ /\ SimCalls(trace') = <<>>
          /\ call'.op = "updateFromEmulator" =>
                /\ SimCalls(trace') = <<>>
                /\ (call'.emu.present /\ initialized_) =>
                      node_states_' = MirrorOnly(call'.emu)
          /\ \A r \in MirroredRegisters(call'.emu) :
                setPerfect2a03NodeBits(sim_state_, r[1], Len(r[1]), r[2]) = <<>>
          /\ updateNodeStatesFromSimulation(sim_state_) = <<>> ]_vars

C4_Witness ==
    /\ call.op = "stepSimulation"
    /\ sim_state_ = NULL /\ sim_enabled_ /\ initialized_
    /\ \E n \in Nodes : node_states_[n] = NODE_ACTIVE

\* C5: instruction-fetch injection is guarded, not wrapped: for i in 0..8 a
\* memory-image cell is written only when pc + i <= 0xFFFF, at address
\* pc + i; nothing is written for an i with pc + i > 0xFFFF.
C5_InjectionGuarded ==
    BridgeRan =>
        LET pc == call.emu.cpu.pc
            m  == SelectSeq(trace, LAMBDA e : e.op = "mem")
        IN  /\ \A i \in 0 .. 8 : pc + i <= 65535 => \E k \in DOMAIN m : m[k].arg = pc + i
            /\ \A k \in DOMAIN m : \E i \in 0 .. 8 : pc + i <= 65535 /\ m[k].arg = pc + i

\* C6: instruction-fetch injection never writes a memory-image address
\* greater than 0xFFFF, also when pc + 8 passes 0xFFFF.
C6_InjectionInRange ==
    BridgeRan =>
        \A k \in Positions(trace, {"mem"}) : trace[k].arg >= 0 /\ trace[k].arg <= 65535

C6_Witness ==
    /\ BridgeRan
    /\ call.emu.cpu.pc + 8 > 65535
    /\ CountOf(trace, "mem") = 9

\* C7: with a non-null handle and the bridge enabled, stepSimulation(n) steps
\* the simulator exactly n times for n >= 0 and exactly the configured budget
\* times for n = -1, then harvests once, and makes no node write and no
\* memory-image write.
C7_StepSimulation ==
    (call.op = "stepSimulation" /\ sim_state_ # NULL /\ sim_enabled_ /\ call.n >= -1) =>
        LET N == IF call.n = -1 THEN sim_cycles_per_frame_ ELSE call.n
        IN  /\ Len(trace) = N + 1
            /\ \A k \in 1 .. N : trace[k].op = "step" /\ trace[k].h = sim_state_
            /\ trace[N + 1].op = "harvest" /\ trace[N + 1].h = sim_state_
            /\ \A n \in Nodes : node_states_[n] = LevelState(simNodes[n])

C7_Witness ==
    /\ call.op = "stepSimulation" /\ call.n = -1
    /\ sim_state_ # NULL /\ sim_enabled_
    /\ sim_cycles_per_frame_ = 10
    /\ CountOf(trace, "step") = 10

\* C8: resetSimulation destroys the current instance (if any) before it
\* creates a new one, then steps the new instance exactly 20 times (as init
\* does after creating one) and leaves node_states_ unchanged; if creation
\* fails the handle is null and nothing is stepped.
C8_ResetSimulation ==
    [][ /\ call'.op = "resetSimulation" =>
            LET d == IF sim_state_ # NULL THEN 1 ELSE 0
            IN  /\ node_states_' = node_states_
                /\ Len(trace') >= d + 1
                /\ d = 1 => /\ trace'[1].op = "destroy" /\ trace'[1].h = sim_state_
                            /\ sim_state_ \notin simLive'
                /\ trace'[d + 1].op = "create" /\ trace'[d + 1].h = sim_state_'
                /\ IF sim_state_' # NULL
                   THEN /\ sim_state_' \notin simLive
                        /\ simLive' = {sim_state_'}
                        /\ Len(trace') = d + 1 + 20
                        /\ \A k \in (d + 2) .. (d + 21) :
                               trace'[k].op = "step" /\ trace'[k].h = sim_state_'
                   ELSE Len(trace') = d + 1
        /\ (call'.op = "init" /\ CountOf(trace', "create") = 1 /\ sim_state_' # NULL) =>
               CountOf(trace', "step") = 20 ]_vars

C8_Witness ==
    /\ call.op = "resetSimulation"
    /\ sim_state_ # NULL
    /\ Len(trace) = 22
    /\ trace[1].op = "destroy"

\* The valid indices among the first count entries of a map.
ValidEntries(nodes, count) ==
    {nodes[i] : i \in 1 .. count} \cap (0 .. (A2A03_MAX_NODES - 1))

\* C9: setNodeBits(nodes, count, value), for a map of distinct indices, sets
\* for every i in [0, count) with nodes[i] in [0, MAX_NODES) the entry
\* nodes[i] to ACTIVE when bit i of value (bit 0 least significant) is 1 and
\* to INACTIVE otherwise; 0xA5 over nodes 10..17 makes 10, 12, 15, 17 ACTIVE
\* and 11, 13, 14, 16 INACTIVE, and 0x1234 over a 16-entry map gives the
\* pattern 0001001000110100.
C9_SetNodeBits ==
    call.op = "setNodeBits" =>
        /\ (\A i, j \in 1 .. call.count : call.nodes[i] = call.nodes[j] => i = j) =>
               \A i \in 0 .. (call.count - 1) :
                   (call.nodes[i + 1] >= 0 /\ call.nodes[i + 1] < A2A03_MAX_NODES) =>
                       node_states_[call.nodes[i + 1]] =
                           IF (call.value \div (2 ^ i)) % 2 = 1
                           THEN NODE_ACTIVE ELSE NODE_INACTIVE
        /\ (call.nodes = <<10, 11, 12, 13, 14, 15, 16, 17>> /\ call.count = 8
                /\ call.value = 165) =>
               /\ \A n \in {10, 12, 15, 17} : node_states_[n] = NODE_ACTIVE
               /\ \A n \in {11, 13, 14, 16} : node_states_[n] = NODE_INACTIVE
        /\ (Len(call.nodes) = 16 /\ call.count = 16 /\ call.value = 4660) =>
               \A i \in 0 .. 15 :
                   node_states_[call.nodes[i + 1]] =
                       IF i \in {2, 4, 5, 9, 12} THEN NODE_ACTIVE ELSE NODE_INACTIVE

C9_Witness ==
    /\ call.op = "setNodeBits"
    /\ call.nodes = <<10, 11, 12, 13, 14, 15, 16, 17>> /\ call.count = 8
    /\ call.value = 165
    /\ node_states_[10] = NODE_ACTIVE /\ node_states_[11] = NODE_INACTIVE
    /\ node_states_[9] = NODE_HIGHLIGHTED

\* C10: setNodeBits changes no entry of node_states_ other than those at the
\* valid indices among nodes[0 .. count-1]; entries of the map that are -1 or
\* otherwise outside [0, MAX_NODES) cause no store at all.
C10_SetNodeBitsFrame ==
    [][ call'.op = "setNodeBits" =>
          LET valid == ValidEntries(call'.nodes, call'.count)
          IN  /\ \A n \in Nodes \ valid : node_states_'[n] = node_states_[n]
              /\ \A k \in DOMAIN trace' :
                     trace'[k].op = "store" /\ trace'[k].arg \in valid
              /\ Len(trace') =
                     Cardinality({i \in 1 .. call'.count : call'.nodes[i] \in valid}) ]_vars

C10_Witness ==
    /\ call.op = "setNodeBits"
    /\ \E i \in 1 .. call.count : call.nodes[i] = -1
    /\ \E i \in 1 .. call.count : call.nodes[i] >= A2A03_MAX_NODES
    /\ trace # <<>>
    /\ \E n \in Nodes : node_states_[n] = NODE_HIGHLIGHTED
    /\ \E n \in Nodes : node_states_[n] = NODE_INACTIVE

\* C11: setNodeBits is idempotent: for every node map, bit count and value,
\* the same call made a second time in a row leaves node_states_ as the
\* first call left it.
C11_SetNodeBitsIdempotent ==
    [][ call'.op = "setNodeBits again" => node_states_' = node_states_ ]_vars

C11_Witness ==
    /\ call.op = "setNodeBits again"
    /\ call.nodes = <<3, 4, 3, 4>> /\ call.count = 4 /\ call.value = 165
    /\ Len(trace) = 4
    /\ node_states_[3] = NODE_ACTIVE /\ node_states_[4] = NODE_INACTIVE

\* C12: once highlightNode(i) has set entry i to HIGHLIGHTED, the entry stays
\* HIGHLIGHTED across every method other than the full resets (clearHighlight
\* and updateFromEmulator): updateCpuState, updateApuState and stepSimulation
\* do not change it.
C12_HighlightPersists ==
    [][ \A n \in Nodes :
          (node_states_[n] = NODE_HIGHLIGHTED
              /\ call'.op \notin {"clearHighlight", "updateFromEmulator"})
          => node_states_'[n] = NODE_HIGHLIGHTED ]_vars

\* C13: highlightNode(i) with i in [0, MAX_NODES) sets exactly entry i of
\* node_states_ to HIGHLIGHTED and leaves every other entry unchanged; with
\* i outside that range it stores nothing and the buffer is unchanged.
C13_HighlightNodeFrame ==
    [][ call'.op = "highlightNode" =>
          IF call'.n >= 0 /\ call'.n < A2A03_MAX_NODES
          THEN /\ node_states_'[call'.n] = NODE_HIGHLIGHTED
               /\ \A n \in Nodes \ {call'.n} : node_states_'[n] = node_states_[n]
               /\ Len(trace') = 1
          ELSE /\ node_states_' = node_states_
               /\ trace' = <<>> ]_vars

C13_Witness ==
    /\ call.op = "highlightNode" /\ call.n = 11
    /\ node_states_[11] = NODE_HIGHLIGHTED
    /\ \E n \in Nodes : node_states_[n] = NODE_ACTIVE
    /\ \E n \in Nodes : node_states_[n] = NODE_INACTIVE

\* C14: after clearHighlight() every entry of node_states_ is INACTIVE,
\* whatever the buffer held before (ACTIVE and HIGHLIGHTED entries included).
C14_ClearHighlight ==
    call.op = "clearHighlight" => \A n \in Nodes : node_states_[n] = NODE_INACTIVE

C14_Witness ==
    /\ call.op = "clearHighlight"
    /\ call.count > 0 /\ call.value > 0
    /\ node_states_ = AllInactive

\* C16: after any sequence of setScale and addScale calls and view resets
\* from the initial scale 9.0, the camera scale lies in [minScale, maxScale]
\* = [1, 100] (10 .. 1000 tenths), and addScale(-1000) leaves it at exactly
\* minScale.
C16_ScaleClamped ==
    /\ scale_ >= getMinScale /\ scale_ <= getMaxScale
    /\ getMinScale = 10 /\ getMaxScale = 1000
    /\ (call.op = "addScale" /\ call.n = -10000) => scale_ = getMinScale

C16_Witness ==
    /\ call.op = "addScale" /\ call.n = -10000
    /\ scale_ = getMinScale

\* The node writes among the effects of t, in order.
NodeWrites(t) == SelectSeq(t, LAMBDA e : e.op = "write")

NonNegative(nodes) == {i \in DOMAIN nodes : nodes[i] >= 0}

\* C17: in the register push of an update cycle no node write is issued for
\* bit 5 of the P register, whatever P holds and although the P map has a
\* node at position 5; each of the other seven P bits with a non-negative
\* index is written exactly once, with its bit value.
C17_StatusBit5Skipped ==
    BridgeRan =>
        LET w == NodeWrites(trace)
            p == node_idx_.p
            P == call.emu.cpu.p
        IN  /\ \A k \in DOMAIN w : w[k].arg # p[6]
            /\ \A i \in (0 .. 7) \ {5} :
                   p[i + 1] >= 0 =>
                       /\ Cardinality({k \in DOMAIN w : w[k].arg = p[i + 1]}) = 1
                       /\ \A k \in DOMAIN w :
                              w[k].arg = p[i + 1] =>
                                  w[k].val = (P \div (2 ^ i)) % 2
            /\ Len(w) = Cardinality(NonNegative(node_idx_.a))
                        + Cardinality(NonNegative(node_idx_.x))
                        + Cardinality(NonNegative(node_idx_.y))
                        + Cardinality(NonNegative(node_idx_.sp))
                        + Cardinality(NonNegative(p) \ {6})
                        + Cardinality(NonNegative(node_idx_.pcl))
                        + Cardinality(NonNegative(node_idx_.pch))
                        + Cardinality(NonNegative(node_idx_.ab))

C17_Witness ==
    /\ BridgeRan
    /\ (call.emu.cpu.p \div 32) % 2 = 1
    /\ node_idx_.p[6] >= 0
    /\ \E k \in DOMAIN trace : trace[k].op = "write" /\ trace[k].arg = node_idx_.p[1]

\* C18: every node write issued to the simulator during the register push
\* targets an index in [0, MAX_NODES): map entries that are -1, negative or
\* >= MAX_NODES are skipped.
C18_PushIndicesInRange ==
    BridgeRan =>
        \A k \in Positions(trace, {"write"}) :
            trace[k].arg >= 0 /\ trace[k].arg < A2A03_MAX_NODES

\* The sg_make_* calls among the sokol calls of the last method.
Creations(log) ==
    SelectSeq(log, LAMBDA e : e.op \in {"sg_make_image", "sg_make_view", "sg_make_sampler"})

Passes(log) == SelectSeq(log, LAMBDA e : e.op = "sg_begin_pass")

\* C15: render(width, height) on an initialized engine with positive
\* dimensions allocates the offscreen target only when (width, height) differs
\* from the size of the previous allocation: the second of two consecutive
\* renders with the same size makes no target resource, and a render with a
\* non-positive dimension or on an uninitialized engine makes none and
\* begins no pass.
C15_RenderReallocation ==
    [][ call'.op = "render" =>
          LET w == TruncToInt(call'.width)
              h == TruncToInt(call'.height)
          IN  /\ (~initialized_ \/ w <= 0 \/ h <= 0) =>
                     /\ sgLog' = <<>>
                     /\ sgMade' = sgMade /\ sgPool' = sgPool
              /\ Creations(sgLog') # <<>> =>
                     /\ <<w, h>> # <<render_width_, render_height_>>
                     /\ Len(Creations(sgLog')) = 4
                     /\ \E r \in sgPool' \ sgPool :
                            r.kind = "image" /\ r.width = w /\ r.height = h
              /\ (call.op = "render" /\ Passes(sgLog) # <<>>
                     /\ TruncToInt(call.width) = w /\ TruncToInt(call.height) = h) =>
                     /\ Creations(sgLog') = <<>>
                     /\ sgMade' = sgMade /\ sgPool' = sgPool
                     /\ Len(Passes(sgLog')) = 1 ]_vars

C15_Witness ==
    /\ call.op = "render"
    /\ sgMade = 4
    /\ Creations(sgLog) = <<>>
    /\ Len(Passes(sgLog)) = 1
    /\ render_width_ = 100 /\ render_height_ = 200

\* C19: after any sequence of init, shutdown and render calls, whenever
\* render begins a render pass, the colour attachment it draws into is a live
\* view of a live image that has the requested width and height.
C19_PassTargetLive ==
    (call.op = "render" /\ Passes(sgLog) # <<>>) =>
        \A k \in DOMAIN Passes(sgLog) :
            \E v \in sgPool, img \in sgPool :
                /\ v.kind = "view" /\ v.id = Passes(sgLog)[k].h
                /\ img.kind = "image" /\ img.id = v.image
                /\ img.width = TruncToInt(call.width)
                /\ img.height = TruncToInt(call.height)

\* C20: after any sequence of init, shutdown, resetSimulation and
\* stepSimulation calls the simulator handle is non-null only while the
\* engine is initialized, and no simulator instance is live once the engine
\* has been destroyed.
C20_SimulatorOnlyWhileInitialized ==
    /\ sim_state_ # NULL => initialized_
    /\ ~initialized_ => simLive = {}
    /\ call.op = "destruct" => simLive = {}

====
